---- MODULE Spec2Model ----
(***************************************************************************)
(* Model of the AI request pipeline of ExplainHub:                         *)
(*   - RateLimiter.schedule (src/services/geminiApi.ts), the promise chain *)
(*     that serialises and spaces every call to the inference endpoint;    *)
(*   - generateArchitectureDiagram, the structured workflow (cache check,  *)
(*     retry loop, cache write, local fallback);                           *)
(*   - callGeminiAPI, the free-text workflow (model list, retry loop,      *)
(*     degraded result);                                                   *)
(*   - cacheService (localStorage wrapper with a 24 h expiry).             *)
(*   - App (RepoProvider and AppContent): what is on screen while a        *)
(*     repository is fetched.                                              *)
(*   - ExplanationProvider (src/contexts/ExplanationContext.tsx): the      *)
(*     explanations map and the generating flag under overlapping calls.   *)
(* Time is the value of Date.now() in milliseconds.  Every await of the    *)
(* source is a position (pc) of the operation; the code between two awaits *)
(* runs to completion and is one action.                                   *)
(***************************************************************************)
EXTENDS Integers, Sequences, FiniteSets, TLC

(***************************************************************************)
(* The code reads the clock only to take differences (Date.now() minus a   *)
(* recorded time) and to set timers, so every recorded time is kept as its *)
(* age: sinceLastCall is Date.now() - lastCallTime, a CacheItem carries    *)
(* Date.now() - timestamp, a timer the time left until it fires.  An age   *)
(* stops growing once no comparison of the code can tell it apart.         *)
(***************************************************************************)
VARIABLES
    sinceLastCall,  \* Date.now() - RateLimiter.lastCallTime, counted up to MIN_INTERVAL
    queue,          \* RateLimiter.queue: the operation whose promise it waits for (0: Promise.resolve())
    ops,            \* every call made so far, in call order, with the position of its async function
    storage,        \* localStorage entries under CACHE_PREFIX: key -> [data, age]
    sinceLastReq,   \* time since the latest fetch of the inference endpoint, counted up to MIN_INTERVAL
    call,           \* the call of a synchronous helper being made: function, arguments, outcome
    app,            \* the state of App: RepoProvider's repo, loading, error and AppContent's inputs
    provider        \* the state of ExplanationProvider and the calls of its functions so far

vars == <<sinceLastCall, queue, ops, storage, sinceLastReq, call, app, provider>>

----------------------------------------------------------------------------
(* Program constants *)

MIN_INTERVAL == 3500
CACHE_EXPIRY_MS == 24 * 60 * 60 * 1000
maxRetriesDiagram == 3
maxRetriesText == 2
modelCount == 2

(* Bounds of the model *)

MaxOps == 2         \* calls made in one behaviour
TickMs == 1000      \* granularity of the passage of time
AgeCap == 1000      \* a fresh cache entry's age is counted tick by tick up to here
TimerCap == 4000    \* a longer timer is kept as this long: every age has stopped growing by then

\* the diagram requests made: the repository loaded (owner and name), its
\* directory tree, and the API key entered by then (none for the last)
DiagramRequests ==
    { [owner |-> "o1", repo |-> <<"a", "-", "b">>, tree |-> "t1", apiKey |-> "k"],
      [owner |-> "o2", repo |-> <<"a", "_", "b">>, tree |-> "t2", apiKey |-> "k"],
      [owner |-> "o1", repo |-> <<"c">>, tree |-> "t1", apiKey |-> ""] }
ApiKeys == { "", "k" }
RetryAfterSecs == { 1, 5 }
DiagramOutcomes == { "ok1", "ok2", "429", "429ra", "http", "neterr", "notext", "badjson", "nomodules" }
TextOutcomes == { "plain", "fenced", "429", "429ra", "http", "neterr", "notext" }

Min(a, b) == IF a < b THEN a ELSE b
Max(a, b) == IF a > b THEN a ELSE b

----------------------------------------------------------------------------
(* Values *)

RECURSIVE Pow2(_)
Pow2(n) == IF n = 0 THEN 1 ELSE 2 * Pow2(n - 1)

Val(tag, val, snippets) == [tag |-> tag, val |-> val, codeSnippets |-> snippets]
Null == Val("null", "", <<>>)
NoResult == Val("none", "", <<>>)

AlNum == { "a", "b", "c", "d", "e", "g", "i", "m", "o", "r", "t" }

\* str.replace(/[^a-zA-Z0-9]/g, '_')
Sanitize(str) == [i \in DOMAIN str |-> IF str[i] \in AlNum THEN str[i] ELSE "_"]

\* cacheService.generateKey
generateKey(repoName, path, type) ==
    Sanitize(repoName) \o <<"_">> \o type \o <<"_">> \o Sanitize(path)

RootPath == <<"r", "o", "o", "t">>
DiagramType == <<"d", "i", "a", "g", "r", "a", "m">>
DiagramKey(repoName) == generateKey(repoName, RootPath, DiagramType)

\* the expiry test is off by one
CacheGetOffByOne(store, key) ==
    IF key \notin DOMAIN store
    THEN [value |-> Null, store |-> store]
    ELSE IF store[key].age >= CACHE_EXPIRY_MS
         THEN [value |-> Null, store |-> [k \in DOMAIN store \ {key} |-> store[k]]]
         ELSE [value |-> store[key].data, store |-> store]

\* a hit renews the entry
CacheGetTouch(store, key) ==
    IF key \notin DOMAIN store
    THEN [value |-> Null, store |-> store]
    ELSE IF store[key].age > CACHE_EXPIRY_MS
         THEN [value |-> Null, store |-> [k \in DOMAIN store \ {key} |-> store[k]]]
         ELSE [value |-> store[key].data, store |-> [store EXCEPT ![key].age = 0]]

\* cacheService.get: the value returned and the storage it leaves
\* (age is now - item.timestamp)
CacheGet(store, key) ==
    IF key \notin DOMAIN store
    THEN [value |-> Null, store |-> store]
    ELSE IF store[key].age > CACHE_EXPIRY_MS
         THEN [value |-> Null, store |-> [k \in DOMAIN store \ {key} |-> store[k]]]
         ELSE [value |-> store[key].data, store |-> store]

\* cacheService.set: setItem may throw (quota exceeded), which set swallows
CacheSet(store, key, data, quotaOk) ==
    IF quotaOk
    THEN [k \in DOMAIN store \cup {key} |->
             IF k = key THEN [data |-> data, age |-> 0] ELSE store[k]]
    ELSE store

\* convertJsonToMermaid applied to the parsed response
convertJsonToMermaid(outcome) == Val("ai", outcome, <<>>)

\* generateLocalArchitecture
generateLocalArchitecture(tree) == Val("fallback", tree, <<>>)

\* extractCodeSnippets: the fenced blocks of the text
extractCodeSnippets(text) == IF text = "fenced" THEN << "fenced-block" >> ELSE <<>>

RateLimitMessage == Val("degraded", "Rate Limit Exceeded", <<>>)
FailedMessage == Val("degraded", "Generation Failed", <<>>)

----------------------------------------------------------------------------
(* Operations *)

NoRepo == << >>
NoOwner == "-"
NoTree == "-"

\* one call: its inputs (and owner, the owner of the repository the caller has
\* loaded, which no function is passed), the promise it is chained on (pred; 0 is the initial
\* Promise.resolve(), -1 a call that never reached schedule), the position of its
\* async function, the locals of its retry loop, and what it has done so far:
\* fetches issued (nreq), value or error delivered (err: the operation whose
\* body threw), whether every earlier call had settled when it was made (seq),
\* what its cache check found (cache) and whether it slept for spacing (spaced)
NewOp(kind, repo, tree) ==
    [kind |-> kind, owner |-> NoOwner, repo |-> repo, tree |-> tree, apiKey |-> "-",
     pred |-> -1, pc |-> "pending",
     began |-> FALSE, attempt |-> 0, model |-> 0, timer |-> 0, status429 |-> FALSE,
     nreq |-> 0, mreq |-> 0, result |-> NoResult, err |-> 0, seq |-> FALSE,
     cache |-> "-", spaced |-> FALSE]

Ids == 1 .. Len(ops)
Settled(i) == ops[i].pc \in {"resolved", "rejected"}
AllSettled == \A i \in Ids : Settled(i)

\* the promise settles and the locals of the function go out of scope
Resolve(r, value) ==
    [r EXCEPT !.pc = "resolved", !.result = value,
              !.attempt = 0, !.model = 0, !.status429 = FALSE, !.mreq = 0]
Reject(r, origin) ==
    [r EXCEPT !.pc = "rejected", !.err = origin,
              !.attempt = 0, !.model = 0, !.status429 = FALSE, !.mreq = 0]

\* setTimeout(resolve, wait)
Sleep(r, pc, wait) == [r EXCEPT !.pc = pc, !.timer = Min(Max(wait, 0), TimerCap)]

\* the queue does not wait for the operation
QueueThenNoWait(pc) == "fulfilled"

\* this.queue = operation: a rejection is not swallowed
QueueThenNoCatch(pc) ==
    IF pc = "resolved" THEN "fulfilled"
    ELSE IF pc = "rejected" THEN "rejected" ELSE "pending"

\* this.queue = operation.then(() => { }, () => { }): fulfilled once the
\* operation has settled, whether it resolved or rejected
QueueThen(pc) ==
    IF pc \in {"resolved", "rejected"} THEN "fulfilled" ELSE "pending"

\* the state of the promise an operation is chained on
Gate(i) == IF ops[i].pred = 0 THEN "fulfilled" ELSE QueueThen(ops[ops[i].pred].pc)

\* no helper is being called
NoCall == [fn |-> "none", args |-> << >>, ret |-> << >>]

\* localStorage outlives the page: it is empty, or holds a diagram an earlier
\* session cached
\* absent values (null, undefined) and present ones
None == { }
Some(list) == { list }
The(field) == CHOOSE list \in field : TRUE

\* the state App is mounted with: useState(null), useState(false), useState(null)
\* of RepoProvider, useState('') and useState(REACT_APP_GEMINI_API_KEY || '') of
\* AppContent; fetching is the url of the fetchRepo call in flight
InitialApp(envKey) ==
    [envKey |-> envKey, apiKey |-> envKey, repoUrl |-> << >>,
     repo |-> None, loading |-> FALSE, error |-> None, fetching |-> None]

\* ExplanationProvider as mounted: useState({}), useState(false), useState(null)
InitialProvider ==
    [explanations |-> << >>, generating |-> FALSE, error |-> None, calls |-> << >>]

PriorStorage ==
    { << >>,
      [k \in {DiagramKey(<<"c">>)} |-> [data |-> convertJsonToMermaid("ok1"), age |-> AgeCap]] }

Init ==
    /\ sinceLastCall = MIN_INTERVAL
    /\ queue = 0
    /\ ops = << >>
    /\ storage \in PriorStorage
    /\ sinceLastReq = MIN_INTERVAL
    /\ call = NoCall
    /\ app = InitialApp("")
    /\ provider = InitialProvider

----------------------------------------------------------------------------
(* RateLimiter.schedule *)

\* schedule(fn): operation = this.queue.then(...); this.queue = operation.then(noop, noop)
Schedule(op) ==
    /\ ops' = Append(ops, [op EXCEPT !.pred = queue, !.seq = AllSettled])
    /\ queue' = Len(ops) + 1

\* fetch(...) of the inference endpoint by operation record r
IssueFetch(r) == [r EXCEPT !.pc = "fetch", !.nreq = @ + 1, !.mreq = @ + 1]

\* a step in which operation i issues a fetch restarts the request clock
FetchClock(i) ==
    sinceLastReq' = IF ops'[i].nreq > ops[i].nreq THEN 0 ELSE sinceLastReq

\* the spacing timer is set one tick short
SpacingWaitShort(timeSinceLast) == MIN_INTERVAL - timeSinceLast - TickMs

\* line 21: the time the spacing timer is set for
SpacingWait(timeSinceLast) == MIN_INTERVAL - timeSinceLast

\* lines 26-28: this.lastCallTime = Date.now(); return await fn()
\* fn runs up to its first await: both workflows issue their first fetch at once
StartBody(i) ==
    /\ sinceLastCall' = 0
    /\ ops' = [ops EXCEPT ![i] =
          IF ops[i].kind = "plain"
          THEN [@ EXCEPT !.pc = "running", !.began = TRUE]
          ELSE IssueFetch([@ EXCEPT !.began = TRUE])]
    /\ FetchClock(i)

\* lines 16-24: the callback of this.queue.then runs once the promise it is
\* chained on has settled
Begin(i) ==
    /\ ops[i].pc = "pending"
    /\ Gate(i) # "pending"
    /\ IF Gate(i) = "rejected"
       THEN \* then() on a rejected promise: the callback is skipped, the rejection passed on
            /\ ops' = [ops EXCEPT ![i] = Reject(@, ops[ops[i].pred].err)]
            /\ UNCHANGED <<sinceLastCall, sinceLastReq>>
       ELSE LET timeSinceLast == sinceLastCall IN
            IF timeSinceLast < MIN_INTERVAL
            THEN /\ ops' = [ops EXCEPT ![i] =
                       Sleep([@ EXCEPT !.spaced = TRUE], "spacing", SpacingWait(timeSinceLast))]
                 /\ UNCHANGED <<sinceLastCall, sinceLastReq>>
            ELSE StartBody(i)
    /\ UNCHANGED <<queue, storage, call, app, provider>>

\* line 23: the spacing timer fires
WakeSpacing(i) ==
    /\ ops[i].pc = "spacing"
    /\ ops[i].timer = 0
    /\ StartBody(i)
    /\ UNCHANGED <<queue, storage, call, app, provider>>

\* a function passed to schedule by another caller: it resolves or throws
SubmitPlain ==
    /\ Len(ops) < MaxOps
    /\ Schedule(NewOp("plain", NoRepo, NoTree))
    /\ UNCHANGED <<sinceLastCall, storage, sinceLastReq, call, app, provider>>

SettlePlain(i, ok) ==
    /\ ops[i].pc = "running"
    /\ ops' = [ops EXCEPT ![i] =
          IF ok THEN Resolve(@, Val("value", "", <<>>)) ELSE Reject(@, i)]
    /\ UNCHANGED <<sinceLastCall, queue, storage, sinceLastReq, call, app, provider>>

----------------------------------------------------------------------------
(* generateArchitectureDiagram *)

\* lines 288-295 and 402: the cache check, then the retry loop handed to schedule
\* (called by the component for the repository owner/repo with repo.name only)
SubmitDiagram(owner, repo, tree, apiKey) ==
    /\ Len(ops) < MaxOps
    /\ LET cacheKey == DiagramKey(repo)
           got == CacheGet(storage, cacheKey)
           found == IF got.value # Null THEN "hit"
                    ELSE IF cacheKey \in DOMAIN storage THEN "expired" ELSE "miss"
           op == [NewOp("diagram", repo, tree) EXCEPT
                     !.cache = found, !.owner = owner, !.apiKey = apiKey]
       IN
       /\ storage' = got.store
       /\ IF got.value # Null      \* if (cachedDiagram): a stored diagram is never the empty string
          THEN /\ ops' = Append(ops, [Resolve(op, got.value) EXCEPT !.seq = AllSettled])
               /\ UNCHANGED queue
          ELSE Schedule(op)
    /\ UNCHANGED <<sinceLastCall, sinceLastReq, call, app, provider>>

\* the loop makes one pass too many
NextAttemptDiagramOffByOne(r) ==
    IF r.attempt + 1 <= maxRetriesDiagram
    THEN Sleep([r EXCEPT !.attempt = @ + 1], "backoff", Pow2(r.attempt + 1) * 2000)
    ELSE Resolve(r, generateLocalArchitecture(r.tree))

\* the last error is thrown instead of the fallback being returned
NextAttemptDiagramThrow(r) ==
    IF r.attempt + 1 < maxRetriesDiagram
    THEN Sleep([r EXCEPT !.attempt = @ + 1], "backoff", Pow2(r.attempt + 1) * 2000)
    ELSE Reject(r, -1)

\* a retry that does not count: the pass is repeated with attempt unchanged
NextAttemptDiagramNoCount(r) ==
    IF r.attempt + 1 < maxRetriesDiagram
    THEN Sleep(r, "backoff", Pow2(r.attempt + 1) * 2000)
    ELSE Resolve(r, generateLocalArchitecture(r.tree))

\* lines 473-477 and 407: the catch block, then attempt++; the next pass of the
\* loop starts with the backoff timer, after the last pass comes the fallback
NextAttemptDiagram(r) ==
    IF r.attempt + 1 < maxRetriesDiagram
    THEN Sleep([r EXCEPT !.attempt = @ + 1], "backoff", Pow2(r.attempt + 1) * 2000)
    ELSE Resolve(r, generateLocalArchitecture(r.tree))

\* the diagram is stored under a key built with path and type swapped
CacheDiagramOtherKey(store, repo, diagram, quotaOk) ==
    CacheSet(store, generateKey(repo, DiagramType, RootPath), diagram, quotaOk)

\* lines 464-469: cacheService.set(cacheKey, diagram)
CacheDiagram(store, repo, diagram, quotaOk) ==
    CacheSet(store, DiagramKey(repo), diagram, quotaOk)

\* line 436: the wait after a 429 (retryAfter 0: no Retry-After header)
RetryWaitDiagram(attempt, retryAfter) ==
    IF retryAfter # 0 THEN retryAfter * 1000 ELSE Pow2(attempt + 2) * 1000

\* lines 431-471: the response of the fetch arrives
RespondDiagram(i, outcome) ==
    /\ ops[i].pc = "fetch"
    /\ ops[i].kind = "diagram"
    /\ CASE outcome \in {"ok1", "ok2"} ->
               \E quotaOk \in BOOLEAN :
                  LET diagram == convertJsonToMermaid(outcome) IN
                  /\ storage' = CacheDiagram(storage, ops[i].repo, diagram, quotaOk)
                  /\ ops' = [ops EXCEPT ![i] = Resolve(@, diagram)]
         [] outcome \in {"429", "429ra"} ->
               \E retryAfter \in (IF outcome = "429" THEN {0} ELSE RetryAfterSecs) :
                  /\ ops' = [ops EXCEPT ![i] =
                        Sleep([@ EXCEPT !.status429 = TRUE], "retryAfter",
                              RetryWaitDiagram(ops[i].attempt, retryAfter))]
                  /\ UNCHANGED storage
         [] OTHER ->
               \* non-OK status, fetch exception, no candidate text, JSON.parse
               \* failure, convertJsonToMermaid's 'Invalid diagram data structure'
               /\ ops' = [ops EXCEPT ![i] = NextAttemptDiagram([@ EXCEPT !.status429 = FALSE])]
               /\ UNCHANGED storage
    /\ UNCHANGED <<sinceLastCall, queue, sinceLastReq, call, app, provider>>

\* lines 439-441: the 429 timer fires; continue
WakeRetryAfterDiagram(i) ==
    /\ ops[i].pc = "retryAfter"
    /\ ops[i].kind = "diagram"
    /\ ops[i].timer = 0
    /\ ops' = [ops EXCEPT ![i] = NextAttemptDiagram(@)]
    /\ UNCHANGED <<sinceLastCall, queue, storage, sinceLastReq, call, app, provider>>

\* lines 413-416 and 649-653: the backoff timer fires and the fetch is issued
WakeBackoff(i) ==
    /\ ops[i].pc = "backoff"
    /\ ops[i].timer = 0
    /\ ops' = [ops EXCEPT ![i] = IssueFetch(@)]
    /\ FetchClock(i)
    /\ UNCHANGED <<sinceLastCall, queue, storage, call, app, provider>>

----------------------------------------------------------------------------
(* callGeminiAPI *)

\* lines 624-630
SubmitText(apiKey) ==
    /\ Len(ops) < MaxOps
    /\ IF apiKey = ""
       THEN /\ ops' = Append(ops, [Reject(NewOp("text", NoRepo, NoTree), Len(ops) + 1)
                                      EXCEPT !.seq = AllSettled, !.apiKey = apiKey])
            /\ UNCHANGED queue
       ELSE Schedule([NewOp("text", NoRepo, NoTree) EXCEPT !.apiKey = apiKey])
    /\ UNCHANGED <<sinceLastCall, storage, sinceLastReq, call, app, provider>>

\* the last error is thrown instead of the degraded result being returned
NextModelThrow(r) ==
    IF r.model + 1 < modelCount
    THEN IssueFetch([r EXCEPT !.model = @ + 1, !.attempt = 0, !.mreq = 0])
    ELSE Reject(r, -1)

\* line 639 and 724-736: the next model of modelNames is tried at once; after
\* the last one the degraded result is returned
NextModel(r) ==
    IF r.model + 1 < modelCount
    THEN IssueFetch([r EXCEPT !.model = @ + 1, !.attempt = 0, !.mreq = 0])
    ELSE Resolve(r, IF r.status429 THEN RateLimitMessage ELSE FailedMessage)

\* the attempt loop of a model makes one pass too many
NextAttemptTextOffByOne(r) ==
    IF r.attempt + 1 <= maxRetriesText
    THEN Sleep([r EXCEPT !.attempt = @ + 1], "backoff", Pow2(r.attempt + 1) * 1000)
    ELSE NextModel(r)

\* line 640: attempt++; a further pass starts with the backoff timer (648-649)
NextAttemptText(r) ==
    IF r.attempt + 1 < maxRetriesText
    THEN Sleep([r EXCEPT !.attempt = @ + 1], "backoff", Pow2(r.attempt + 1) * 1000)
    ELSE NextModel(r)

\* lines 673-720: the response of the fetch arrives
RespondText(i, outcome) ==
    /\ ops[i].pc = "fetch"
    /\ ops[i].kind = "text"
    /\ CASE outcome \in {"plain", "fenced"} ->
               ops' = [ops EXCEPT ![i] =
                  Resolve(@, Val("text", outcome, extractCodeSnippets(outcome)))]
         [] outcome = "429" ->
               ops' = [ops EXCEPT ![i] = NextModel([@ EXCEPT !.status429 = TRUE])]
         [] outcome = "429ra" ->
               \E retryAfter \in RetryAfterSecs :
                  ops' = [ops EXCEPT ![i] =
                     Sleep([@ EXCEPT !.status429 = TRUE], "retryAfter", retryAfter * 1000)]
         [] outcome \in {"http", "notext"} ->
               ops' = [ops EXCEPT ![i] = NextModel([@ EXCEPT !.status429 = FALSE])]
         [] OTHER ->
               \* fetch or response.json() threw: lines 716-720
               ops' = [ops EXCEPT ![i] =
                  IF ops[i].attempt = maxRetriesText - 1
                  THEN NextModel([@ EXCEPT !.status429 = FALSE])
                  ELSE NextAttemptText([@ EXCEPT !.status429 = FALSE])]
    /\ FetchClock(i)
    /\ UNCHANGED <<sinceLastCall, queue, storage, call, app, provider>>

\* lines 688-689: the Retry-After timer fires; continue
WakeRetryAfterText(i) ==
    /\ ops[i].pc = "retryAfter"
    /\ ops[i].kind = "text"
    /\ ops[i].timer = 0
    /\ ops' = [ops EXCEPT ![i] = NextAttemptText(@)]
    /\ FetchClock(i)
    /\ UNCHANGED <<sinceLastCall, queue, storage, call, app, provider>>

----------------------------------------------------------------------------
(* Time *)

\* the age of a cache entry after d more milliseconds: exact while at most
\* AgeCap and when a whole day passes, and any expired age is the same
Aged(age, d) ==
    IF age + d > CACHE_EXPIRY_MS THEN CACHE_EXPIRY_MS + 1
    ELSE IF d < CACHE_EXPIRY_MS /\ age + d > AgeCap THEN age
    ELSE age + d

AgeStore(store, d) == [k \in DOMAIN store |-> [store[k] EXCEPT !.age = Aged(@, d)]]

\* Date.now() advances by a tick, or by a day
PassTime(d) ==
    /\ sinceLastCall' = Min(sinceLastCall + d, MIN_INTERVAL)
    /\ sinceLastReq' = Min(sinceLastReq + d, MIN_INTERVAL)
    /\ ops' = [i \in Ids |-> [ops[i] EXCEPT !.timer = Max(@ - d, 0)]]
    /\ storage' = AgeStore(storage, d)
    /\ UNCHANGED <<queue, call, app, provider>>

----------------------------------------------------------------------------

Next ==
    \/ SubmitPlain
    \/ \E req \in DiagramRequests : SubmitDiagram(req.owner, req.repo, req.tree, req.apiKey)
    \/ \E apiKey \in ApiKeys : SubmitText(apiKey)
    \/ \E i \in Ids : Begin(i)
    \/ \E i \in Ids : WakeSpacing(i)
    \/ \E i \in Ids, ok \in BOOLEAN : SettlePlain(i, ok)
    \/ \E i \in Ids, outcome \in DiagramOutcomes : RespondDiagram(i, outcome)
    \/ \E i \in Ids : WakeRetryAfterDiagram(i)
    \/ \E i \in Ids : WakeBackoff(i)
    \/ \E i \in Ids, outcome \in TextOutcomes : RespondText(i, outcome)
    \/ \E i \in Ids : WakeRetryAfterText(i)
    \/ \E d \in {TickMs, CACHE_EXPIRY_MS} : PassTime(d)

Spec == Init /\ [][Next]_vars

\* what the event loop does for operation i: it runs the callback of a settled
\* promise, fires a due timer, and delivers the response of a fetch
OpStep(i) ==
    /\ i \in Ids
    /\ \/ Begin(i)
       \/ WakeSpacing(i)
       \/ \E ok \in BOOLEAN : SettlePlain(i, ok)
       \/ \E outcome \in DiagramOutcomes : RespondDiagram(i, outcome)
       \/ WakeRetryAfterDiagram(i)
       \/ WakeBackoff(i)
       \/ \E outcome \in TextOutcomes : RespondText(i, outcome)
       \/ WakeRetryAfterText(i)

\* a session that starts with nothing cached: what localStorage held before
\* only decides whether a diagram request enters the queue at all
FairInit == Init /\ storage = << >>

\* time passes, and every started function, fetch and timer completes
FairSpec ==
    /\ FairInit /\ [][Next]_vars
    /\ WF_vars(PassTime(TickMs))
    /\ \A i \in 1 .. MaxOps : WF_vars(OpStep(i))

----------------------------------------------------------------------------
(* Synchronous helpers, called on inputs of their own *)

Undefined == Val("undefined", "", << >>)

\* what localStorage.getItem finds under a key: nothing, the empty string, text
\* that is not JSON, or JSON: null, a scalar, or an object with or without a
\* data field whose timestamp field is missing, a number (kept as the age
\* Date.now() - timestamp), null, or text that is not a number
Payload(kind, data, tsKind, age) == [kind |-> kind, data |-> data, tsKind |-> tsKind, age |-> age]
StoredData == { Undefined, convertJsonToMermaid("ok1") }
StoredAges == { 0, CACHE_EXPIRY_MS, CACHE_EXPIRY_MS + 1 }
Payloads ==
    { Payload(kind, Undefined, "missing", 0) : kind \in {"absent", "empty", "notjson", "null", "scalar"} }
    \cup { Payload("object", data, tsKind, 0) : data \in StoredData, tsKind \in {"missing", "null", "text"} }
    \cup { Payload("object", data, "number", age) : data \in StoredData, age \in StoredAges }

\* a payload that set wrote: an object with its data and a numeric timestamp
WellFormed(payload) ==
    payload.kind = "object" /\ payload.data # Undefined /\ payload.tsKind = "number"

\* line 20: now - item.timestamp > CACHE_EXPIRY_MS, where the difference is
\* NaN (and the test false) for a timestamp that is undefined or not a number,
\* and now itself for a timestamp that is null
Expired(payload) ==
    CASE payload.tsKind = "number" -> payload.age > CACHE_EXPIRY_MS
      [] payload.tsKind = "null" -> TRUE
      [] OTHER -> FALSE

\* cacheService.get on one stored payload: the value returned, whether the
\* entry was removed, and whether an exception left the function
\* (readOk: localStorage.getItem did not throw)
get(payload, readOk) ==
    LET miss == [value |-> Null, removed |-> FALSE, threw |-> FALSE] IN
    IF ~readOk THEN miss                                  \* catch
    ELSE IF payload.kind \in {"absent", "empty"} THEN miss   \* if (!itemStr)
    ELSE IF payload.kind = "notjson" THEN miss            \* JSON.parse throws: catch
    ELSE IF payload.kind = "null" THEN miss               \* item.timestamp of null throws: catch
    ELSE IF payload.kind = "scalar" THEN [miss EXCEPT !.value = Undefined]
    ELSE IF Expired(payload) THEN [miss EXCEPT !.removed = TRUE]
    ELSE [miss EXCEPT !.value = payload.data]

\* cacheService.set: the storage it leaves and whether an exception left it
set(store, key, data, quotaOk) ==
    [store |-> CacheSet(store, key, data, quotaOk), threw |-> FALSE]

HelperStores == { << >> } \cup
    { [k \in {DiagramKey(<<"c">>)} |-> [data |-> convertJsonToMermaid(o), age |-> 0]] : o \in {"ok1", "ok2"} }

CallGet ==
    /\ call = NoCall
    /\ \E payload \in Payloads, readOk \in BOOLEAN :
          call' = [fn |-> "get", args |-> <<payload, readOk>>, ret |-> get(payload, readOk)]
    /\ UNCHANGED <<sinceLastCall, queue, ops, storage, sinceLastReq, app, provider>>

CallSet ==
    /\ call = NoCall
    /\ \E store \in HelperStores, req \in DiagramRequests, o \in {"ok1", "ok2"}, quotaOk \in BOOLEAN :
          call' = [fn |-> "set",
                   args |-> <<store, DiagramKey(req.repo), convertJsonToMermaid(o), quotaOk>>,
                   ret |-> set(store, DiagramKey(req.repo), convertJsonToMermaid(o), quotaOk)]
    /\ UNCHANGED <<sinceLastCall, queue, ops, storage, sinceLastReq, app, provider>>

\* the type parameter of generateKey: 'explanation' | 'diagram' | 'code_qa'
ExplanationType == <<"e", "x", "p", "l", "a", "n", "a", "t", "i", "o", "n">>
CodeQaType == <<"c", "o", "d", "e", "_", "q", "a">>
KeyTypes == { ExplanationType, DiagramType, CodeQaType }
KeyRepoNames == { req.repo : req \in DiagramRequests }
KeyPaths == { RootPath, <<"a", "/", "b">>, <<"a", ".", "b">> }
KeyInputs == KeyRepoNames \X KeyPaths \X KeyTypes

CallGenerateKey ==
    /\ call = NoCall
    /\ \E in \in KeyInputs :
          call' = [fn |-> "generateKey", args |-> in, ret |-> generateKey(in[1], in[2], in[3])]
    /\ UNCHANGED <<sinceLastCall, queue, ops, storage, sinceLastReq, app, provider>>

\* a text field the JSON value does not have (undefined)
Missing == "missing"

\* a list field of the JSON value: not there, or there with its elements
\* str.replace(/[^a-zA-Z0-9_]/g, '_') of both diagram synthesizers
SanitizeId(str) == [i \in DOMAIN str |-> IF str[i] \in AlNum \cup {"_"} THEN str[i] ELSE "_"]

\* toLowerCase on the layer names used
Lower(str) == IF str = "UI" THEN "ui" ELSE str

RECURSIVE Dedup(_)
\* Array.from(new Set(seq)): the first occurrence of every element, in order
Dedup(seq) ==
    IF seq = << >> THEN << >>
    ELSE LET init == Dedup(SubSeq(seq, 1, Len(seq) - 1))
             last == seq[Len(seq)]
         IN IF \E i \in DOMAIN init : init[i] = last THEN init ELSE Append(init, last)

RECURSIVE Flatten(_)
\* the concatenation of a sequence of sequences
Flatten(seqs) == IF seqs = << >> THEN << >> ELSE Head(seqs) \o Flatten(Tail(seqs))

Range(seq) == { seq[i] : i \in DOMAIN seq }

\* what a synthesizer returns: the component nodes and the edges of the markup
\* in the order written, or an exception
Markup(nodes, edges) == [nodes |-> nodes, edges |-> edges, threw |-> FALSE]
Thrown == [nodes |-> << >>, edges |-> << >>, threw |-> TRUE]

Component(id, name, layer) == [id |-> id, name |-> name, layer |-> layer]
Relationship(from, to, type) == [from |-> from, to |-> to, type |-> type, description |-> Missing]
Described(rel, description) == [rel EXCEPT !.description = description]
ArchitectureData(components, relationships, layers) ==
    [modules |-> None, components |-> components, relationships |-> Some(relationships),
     layers |-> layers]

\* ArchitectureGeneratorService.convertJsonToMermaid
ArchitectureGenerator_convertJsonToMermaid(data) ==
    LET components == data.components
        relationships == The(data.relationships)
        validLayers == IF data.layers # None THEN The(data.layers)
                       ELSE Dedup([i \in DOMAIN components |-> components[i].layer])
        InLayer(c, layerName) ==
            \/ c.layer # Missing /\ Lower(c.layer) = Lower(layerName)
            \/ c.layer = Missing /\ layerName = "Other"
        layerComponents(layerName) == SelectSeq(components, LAMBDA c : InLayer(c, layerName))
        emitted == Flatten([l \in DOMAIN validLayers |-> layerComponents(validLayers[l])])
        \* lines 36-57: the subgraph of a layer with the nodes written in it
        subgraph(layerName) ==
            [layer |-> layerName,
             nodes |-> [i \in DOMAIN layerComponents(layerName) |->
                          SanitizeId(layerComponents(layerName)[i].id)]]
        \* lines 63-67: label and arrow of a relationship
        link(rel) ==
            [label |-> IF rel.description \notin {Missing, ""} THEN Some(rel.description) ELSE None,
             arrow |-> IF rel.type = "inherits" THEN "--|inherits|-->"
                       ELSE IF rel.type \in {"imports", "uses"} THEN "-.->" ELSE "-->"]
    IN
    IF \/ \E l \in DOMAIN validLayers : validLayers[l] = Missing          \* sanitize(undefined)
       \/ \E i \in DOMAIN emitted : emitted[i].name = Missing               \* quote(undefined)
    THEN Thrown
    ELSE [nodes |-> [i \in DOMAIN emitted |-> SanitizeId(emitted[i].id)],
          edges |-> [r \in DOMAIN relationships |->
                       <<SanitizeId(relationships[r].from), SanitizeId(relationships[r].to)>>],
          threw |-> FALSE,
          groups |-> [l \in DOMAIN validLayers |-> subgraph(validLayers[l])],
          links |-> [r \in DOMAIN relationships |-> link(relationships[r])]]

\* convertJsonToMermaid of geminiApi.ts, which reads data.modules
geminiApi_convertJsonToMermaid(data) ==
    IF data.modules = None THEN Thrown       \* 'Invalid diagram data structure'
    ELSE LET modules == The(data.modules)
             comps == Flatten([m \in DOMAIN modules |-> modules[m].components])
             safeId(c) == SanitizeId(IF c.id = << >> THEN <<"n", "o", "d", "e">> ELSE c.id)
             nodes == [i \in DOMAIN comps |-> safeId(comps[i])]
             validIds == Range(nodes)
             rels == IF data.relationships = None THEN << >> ELSE The(data.relationships)
             edges == [r \in DOMAIN rels |-> <<SanitizeId(rels[r].from), SanitizeId(rels[r].to)>>]
         IN Markup(nodes, SelectSeq(edges, LAMBDA e : e[1] \in validIds /\ e[2] \in validIds))

IdA == <<"a">>
IdB == <<"b">>
IdC == <<"c">>
ComponentLists ==
    { << >> }
    \cup { <<Component(IdA, name, layer)>> : name \in {Missing, "A"}, layer \in {Missing, "ui", "UI"} }
    \cup { <<Component(IdA, name, layer), Component(IdB, name, "ui")>> :
              name \in {Missing, "A"}, layer \in {Missing, "ui", "UI"} }
    \cup { <<Component(IdA, Missing, Missing), Component(IdB, Missing, Missing)>> }
RelationshipLists ==
    { << >> }
    \cup { <<Relationship(IdA, to, type)>> : to \in {IdB, IdC}, type \in {"calls", "imports"} }
    \cup { <<Relationship(IdC, IdA, "calls")>>,
           <<Relationship(IdA, IdB, "calls"), Relationship(IdA, IdC, "calls")>> }
    \cup { <<Relationship(IdA, IdB, type)>> : type \in {"uses", "depends_on", "inherits", "provides"} }
    \cup { <<Described(Relationship(IdA, IdB, type), description)>> :
              type \in {"calls", "imports"}, description \in {"", "d"} }
LayerLists == { None, Some(<< >>), Some(<<"ui">>), Some(<<"Other", "ui">>), Some(<<"data", "ui">>),
                Some(<<"data">>) }

\* what the parsed response may be: ArchitectureData, or the modules of the
\* diagram prompt
ArchitectureInputs ==
    { ArchitectureData(cs, rs, ls) : cs \in ComponentLists, rs \in RelationshipLists, ls \in LayerLists }
ModuleInputs ==
    { [modules |-> Some(<<[label |-> "m", components |-> cs]>>), components |-> << >>,
       relationships |-> rs, layers |-> None] :
          cs \in ComponentLists, rs \in { Some(rl) : rl \in RelationshipLists } \cup {None} }

CallServiceConvert ==
    /\ call = NoCall
    /\ \E data \in ArchitectureInputs :
          call' = [fn |-> "ArchitectureGenerator.convertJsonToMermaid", args |-> <<data>>,
                   ret |-> ArchitectureGenerator_convertJsonToMermaid(data)]
    /\ UNCHANGED <<sinceLastCall, queue, ops, storage, sinceLastReq, app, provider>>

CallConvert ==
    /\ call = NoCall
    /\ \E data \in ArchitectureInputs \cup ModuleInputs :
          call' = [fn |-> "convertJsonToMermaid", args |-> <<data>>,
                   ret |-> geminiApi_convertJsonToMermaid(data)]
    /\ UNCHANGED <<sinceLastCall, queue, ops, storage, sinceLastReq, app, provider>>

\* the text of a response, piece by piece: a fence of three backticks ("F"),
\* the language tag json right after a fence, white space ("W"), prose that is
\* not JSON ("P"), the warning sign that opens a degraded result, or the text of
\* one JSON document
JsonDocs == { "D1", "D2", "D3" }

\* JSON.parse of the text of a document: ArchitectureData whose relationship
\* a -> c has no component c, consistent ArchitectureData, the modules of the
\* diagram prompt
DocData(doc) ==
    LET cs == <<Component(IdA, "A", "ui"), Component(IdB, "A", "ui")>> IN
    CASE doc = "D1" -> ArchitectureData(cs, <<Relationship(IdA, IdB, "calls"),
                                               Relationship(IdA, IdC, "calls")>>, Some(<<"ui">>))
      [] doc = "D2" -> ArchitectureData(cs, <<Relationship(IdA, IdB, "calls")>>, Some(<<"ui">>))
      [] OTHER -> [modules |-> Some(<<[label |-> "m", components |-> cs]>>), components |-> << >>,
                   relationships |-> Some(<<Relationship(IdA, IdB, "calls")>>), layers |-> None]

NoData == [modules |-> None, components |-> << >>, relationships |-> None, layers |-> None]
Parsed(data) == [threw |-> FALSE, data |-> data]
ParseError == [threw |-> TRUE, data |-> NoData]

ResponseTexts ==
    UNION { { <<d>>,
              <<"W", d, "W">>,
              <<"F", "json", "W", d, "W", "F">>,
              <<"F", "json", "W", d, "W", "F", "W">>,
              <<"F", "W", d, "W", "F">>,
              <<"P", "W", "F", "json", "W", d, "W", "F", "W", "P">>,
              <<"P", "W", "F", "W", d, "W", "F">>,
              <<"F", "json", "W", d>> } : d \in JsonDocs }
    \cup { <<"P">>, <<"F", "json", "W", "P", "W", "F">>, <<"warning", "P">> }

RECURSIVE TrimStart(_)
TrimStart(text) == IF text # << >> /\ Head(text) = "W" THEN TrimStart(Tail(text)) ELSE text
RECURSIVE TrimEnd(_)
TrimEnd(text) ==
    IF text # << >> /\ text[Len(text)] = "W" THEN TrimEnd(SubSeq(text, 1, Len(text) - 1)) ELSE text
\* String.prototype.trim
Trim(text) == TrimEnd(TrimStart(text))

\* JSON.parse: the text must be one document, white space around it allowed
JsonParse(text) ==
    IF Len(Trim(text)) = 1 /\ Trim(text)[1] \in JsonDocs
    THEN Parsed(DocData(Trim(text)[1]))
    ELSE ParseError

\* the index of the first fence (followed by the tag json, if tagged), or 0
FirstFence(text, tagged) ==
    LET at == { i \in DOMAIN text :
                  /\ text[i] = "F"
                  /\ tagged => (i < Len(text) /\ text[i + 1] = "json") }
    IN IF at = { } THEN 0 ELSE CHOOSE i \in at : \A j \in at : i <= j

\* line 455: text.replace(/^```json\s*/, '').replace(/```\s*$/, '').trim(), then JSON.parse
parseDiagramJson(text) ==
    LET a == IF FirstFence(text, TRUE) = 1 THEN TrimStart(SubSeq(text, 3, Len(text))) ELSE text
        e == TrimEnd(a)
        b == IF e # << >> /\ e[Len(e)] = "F" THEN SubSeq(e, 1, Len(e) - 1) ELSE a
    IN JsonParse(Trim(b))

\* lines 550-565: the then-handler of extractArchitectureData on res.content
extractArchitectureData(content) ==
    IF Trim(content) # << >> /\ Head(Trim(content)) = "warning"
    THEN ParseError                     \* throw new Error(res.content)
    ELSE LET t == FirstFence(content, TRUE)
             a == IF t # 0 THEN SubSeq(content, t + 2, Len(content)) ELSE content  \* /^[\s\S]*?```json/g
             f == FirstFence(a, FALSE)
             b == IF f # 0 THEN SubSeq(a, 1, f - 1) ELSE a                         \* /```[\s\S]*?$/g
             cleanJson == SelectSeq(Trim(b), LAMBDA piece : piece # "F")
         IN JsonParse(cleanJson)

CallParseDiagramJson ==
    /\ call = NoCall
    /\ \E text \in ResponseTexts :
          call' = [fn |-> "parseDiagramJson", args |-> <<text>>, ret |-> parseDiagramJson(text)]
    /\ UNCHANGED <<sinceLastCall, queue, ops, storage, sinceLastReq, app, provider>>

CallExtractArchitectureData ==
    /\ call = NoCall
    /\ \E content \in ResponseTexts :
          call' = [fn |-> "extractArchitectureData", args |-> <<content>>,
                   ret |-> extractArchitectureData(content)]
    /\ UNCHANGED <<sinceLastCall, queue, ops, storage, sinceLastReq, app, provider>>

\* ArchitectureGeneratorService.generateDiagram once callGeminiAPI has resolved
\* with content: await extractArchitectureData(...), then convertJsonToMermaid
\* of the data; an exception of either rejects the promise returned (a parsed
\* document without components makes components.map throw)
generateDiagram(content) ==
    LET extracted == extractArchitectureData(content)
        markup == ArchitectureGenerator_convertJsonToMermaid(extracted.data)
    IN  IF extracted.threw \/ extracted.data.modules # None THEN [rejected |-> TRUE, diagram |-> Thrown]
        ELSE [rejected |-> markup.threw, diagram |-> markup]

CallGenerateDiagram ==
    /\ call = NoCall
    /\ \E content \in ResponseTexts :
          call' = [fn |-> "generateDiagram", args |-> <<content>>, ret |-> generateDiagram(content)]
    /\ UNCHANGED <<sinceLastCall, queue, ops, storage, sinceLastReq, app, provider>>

\* generateLocalArchitecture: the limits of its traversal
MAX_DEPTH == 1
MAX_NODES == 15

\* the largest number of entries of one directory in the trees tried
MaxSiblings == 17

\* a node of the directory tree (node.children || [] for a file)
Dir(name, children) == [name |-> name, type |-> "dir", children |-> children]
File(name) == [name |-> name, type |-> "file", children |-> << >>]
Subdirs(n) == [i \in 1 .. n |-> Dir("sub", << >>)]

\* the trees tried: an empty root; a node_modules directory and three other
\* directories; skipped directories, nested directories and files; three
\* directories the first of which has n subdirectories; n top-level directories
DirectoryTrees ==
    { Dir("", << >>),
      Dir("", <<Dir("node_modules", << >>), Dir("src", << >>), Dir("docs", << >>), Dir("test", << >>)>>),
      Dir("", <<Dir("node_modules", <<Dir("pkg", << >>)>>), Dir(".git", << >>), File("dist"),
                Dir("src", <<Dir("dist", << >>), Dir("lib", <<Dir("deep", << >>)>>), File("README.md"),
                             File("index.ts")>>),
                File("package.json"), File("notes.txt"), Dir("dist", << >>)>>) }
    \cup { Dir("", <<Dir("src", Subdirs(n)), Dir("node_modules", << >>), Dir("docs", << >>),
                     Dir("test", << >>)>>) : n \in 0 .. MaxSiblings }
    \cup { Dir("", Subdirs(n)) : n \in 1 .. MaxSiblings }

\* the id 'root' of the root node; the id node_<n> is kept as n
RootId == -1

SkippedDirs == { "node_modules", ".git", "dist" }
ImportantFiles == { "package.json", "README.md", "Dockerfile", "compose.yml" }

\* lines 114-118
relevantChildren(node) ==
    SelectSeq(node.children,
              LAMBDA child : \/ child.type = "dir" /\ child.name \notin SkippedDirs
                             \/ child.name \in ImportantFiles)

\* every edge is drawn from root
edgeLineFromRoot(parentId, childId, label) ==
    [parent |-> RootId, id |-> childId, label |-> label]

\* line 126: the line parentId --> childId["label"]
edgeLine(parentId, childId, label) ==
    [parent |-> parentId, id |-> childId, label |-> label]

RECURSIVE traverse(_, _, _, _)
RECURSIVE forEachChild(_, _, _, _, _)

\* lines 110-132: traverse(node, parentId, depth), given and returning nodeCount
\* and the lines written so far, one per node: parent --> id["label"]
traverse(node, parentId, depth, acc) ==
    IF depth > MAX_DEPTH \/ acc.nodeCount > MAX_NODES THEN acc
    ELSE forEachChild(relevantChildren(node), 1, parentId, depth, acc)

\* lines 120-131: the callback of relevantChildren.forEach on the k-th child and after
forEachChild(children, k, parentId, depth, acc) ==
    IF k > Len(children) THEN acc
    ELSE IF acc.nodeCount > MAX_NODES THEN forEachChild(children, k + 1, parentId, depth, acc)
    ELSE LET child == children[k]
             childId == acc.nodeCount
             written == [nodeCount |-> acc.nodeCount + 1,
                         lines |-> Append(acc.lines, edgeLine(parentId, childId, child.name))]
         IN forEachChild(children, k + 1, parentId, depth,
                         IF child.type = "dir" THEN traverse(child, childId, depth + 1, written)
                         ELSE written)

\* generateLocalArchitecture: the marker node is always written, then the lines
\* of traverse(repoStructure, 'root', 0)
localArchitecture(repoStructure) ==
    [marker |-> TRUE,
     tree |-> repoStructure,     \* filter builds a new array: node.children is only read
     lines |-> traverse(repoStructure, RootId, 0, [nodeCount |-> 0, lines |-> << >>]).lines]

CallGenerateLocalArchitecture ==
    /\ call = NoCall
    /\ \E tree \in DirectoryTrees :
          call' = [fn |-> "generateLocalArchitecture", args |-> <<tree>>,
                   ret |-> localArchitecture(tree)]
    /\ UNCHANGED <<sinceLastCall, queue, ops, storage, sinceLastReq, app, provider>>

\* generateTreeRepresentation of generateArchitectureDiagram: its limits
MAX_TREE_DEPTH == 3
MAX_CHILDREN_PER_DIR == 20

\* the largest number of entries of one directory in the outlined trees
MaxEntries == 22

\* a name, kept as the pattern of the ignore list or other stem it starts with
\* and what follows it (n = 0: nothing; names with a number are f01, f02, ...)
Name(stem, n) == [stem |-> stem, n |-> n]
IgnoredPatterns == { "node_modules", ".git", ".vscode", ".idea", "dist", "build", "coverage",
                     "package-lock.json", "yarn.lock", ".DS_Store" }

\* the stems used, in the order of localeCompare
StemOrder == <<".git", "build", "dist", "docs", "f", "lib", "node_modules", "src">>
StemRank(stem) == CHOOSE i \in DOMAIN StemOrder : StemOrder[i] = stem

\* a.name.localeCompare(b.name) < 0
NameBefore(a, b) ==
    \/ StemRank(a.stem) < StemRank(b.stem)
    \/ a.stem = b.stem /\ a.n < b.n

\* lines 309-313: the comparator is negative: directories first, then by name
SortsBefore(a, b) ==
    \/ a.type = "dir" /\ b.type # "dir"
    \/ (a.type = "dir") = (b.type = "dir") /\ NameBefore(a.name, b.name)

\* Array.prototype.sort with that comparator (stable)
RECURSIVE SortChildren(_)
SortChildren(children) ==
    IF children = << >> THEN << >>
    ELSE LET n == Len(children)
             sorted == SortChildren(SubSeq(children, 1, n - 1))
             x == children[n]
             later == { i \in DOMAIN sorted : SortsBefore(x, sorted[i]) }
             at == IF later = { } THEN n ELSE CHOOSE i \in later : \A j \in later : i <= j
         IN  SubSeq(sorted, 1, at - 1) \o <<x>> \o SubSeq(sorted, at, n - 1)

\* lines 317-322: the filter callback
ignoredEntry(child) == child.name.stem \in IgnoredPatterns

\* the positions, in increasing order, of the entries of children that pass the filter
RECURSIVE relevantPositions(_, _)
relevantPositions(children, from) ==
    IF from > Len(children) THEN << >>
    ELSE (IF ignoredEntry(children[from]) THEN << >> ELSE <<from>>)
         \o relevantPositions(children, from + 1)

\* a line of the outline: prefix, marker, name (with '/' for a directory), or
\* the summary line '... (hidden more files)'
OutlineLine(prefix, last, child) ==
    [prefix |-> prefix, last |-> last, name |-> child.name, dir |-> child.type = "dir", hidden |-> 0]
SummaryLine(prefix, hiddenCount) ==
    [prefix |-> prefix, last |-> TRUE, name |-> Name("...", 0), dir |-> FALSE, hidden |-> hiddenCount]

RECURSIVE generateTreeRepresentation(_, _, _)
RECURSIVE forEachVisible(_, _, _, _, _, _, _)

\* lines 305-346: generateTreeRepresentation(node, prefix, depth): the text it
\* returns and the node as it leaves it (sort works on node.children itself)
generateTreeRepresentation(node, prefix, depth) ==
    IF depth > MAX_TREE_DEPTH THEN [output |-> << >>, node |-> node]
    ELSE LET children == SortChildren(node.children)
             relevant == relevantPositions(children, 1)
             visible == SubSeq(relevant, 1, IF Len(relevant) < MAX_CHILDREN_PER_DIR
                                            THEN Len(relevant) ELSE MAX_CHILDREN_PER_DIR)
             hiddenCount == Len(relevant) - Len(visible)
             walked == forEachVisible(children, visible, 1, hiddenCount, prefix, depth, << >>)
         IN  [output |-> walked.output \o
                         (IF hiddenCount > 0 THEN <<SummaryLine(prefix, hiddenCount)>> ELSE << >>),
              node |-> [node EXCEPT !.children = walked.children]]

\* lines 327-338: the callback of visibleChildren.forEach on the k-th visible child and after
forEachVisible(children, visible, k, hiddenCount, prefix, depth, output) ==
    IF k > Len(visible) THEN [output |-> output, children |-> children]
    ELSE LET child == children[visible[k]]
             isLast == k = Len(visible) /\ hiddenCount = 0
             newPrefix == Append(prefix, IF isLast THEN "blank" ELSE "bar")
             below == IF child.type = "dir"
                      THEN generateTreeRepresentation(child, newPrefix, depth + 1)
                      ELSE [output |-> << >>, node |-> child]
         IN  forEachVisible([children EXCEPT ![visible[k]] = below.node], visible, k + 1,
                            hiddenCount, prefix, depth,
                            output \o <<OutlineLine(prefix, isLast, child)>> \o below.output)

\* the files f01 ... f<n> in that order
Files(n) == [i \in 1 .. n |-> File(Name("f", i))]

\* a directory chain src/src/... of the given length with one file at its end
RECURSIVE Chain(_)
Chain(length) ==
    IF length = 0 THEN <<File(Name("f", 1))>>
    ELSE <<Dir(Name("src", 0), Chain(length - 1))>>

\* the trees outlined: as the GitHub API lists them (by name, files among
\* directories); directories first already; a chain of nested directories; a
\* directory of n files beside ignored entries; n files and an ignored one
OutlineTrees ==
    { Dir(Name("", 0), << >>),
      Dir(Name("", 0), <<Dir(Name(".git", 1), << >>), File(Name("f", 1)),
                         Dir(Name("lib", 0), <<File(Name("f", 1)), Dir(Name("src", 0), << >>)>>),
                         Dir(Name("node_modules", 0), <<File(Name("f", 1))>>),
                         Dir(Name("src", 0), <<File(Name("f", 1)), File(Name("f", 2))>>)>>),
      Dir(Name("", 0), <<Dir(Name("lib", 0), << >>), Dir(Name("src", 0), <<File(Name("f", 1))>>),
                         File(Name("f", 1))>>) }
    \cup { Dir(Name("", 0), Chain(length)) : length \in 1 .. MAX_TREE_DEPTH + 2 }
    \cup { Dir(Name("", 0), <<Dir(Name("build", 0), << >>), Dir(Name("src", 0), Files(n)),
                              File(Name("dist", 1))>>) : n \in 0 .. MaxEntries }
    \cup { Dir(Name("", 0), <<File(Name("build", 1))>> \o Files(n)) : n \in 1 .. MaxEntries }

CallGenerateTreeRepresentation ==
    /\ call = NoCall
    /\ \E tree \in OutlineTrees :
          LET outline == generateTreeRepresentation(tree, << >>, 0) IN
          call' = [fn |-> "generateTreeRepresentation", args |-> <<tree>>,
                   ret |-> [lines |-> outline.output, tree |-> outline.node]]
    /\ UNCHANGED <<sinceLastCall, queue, ops, storage, sinceLastReq, app, provider>>

\* maxChars of generateFileExplanation and of generateCodeQuestionResponse
maxCharsExplanation == 15000
maxCharsQuestion == 12000

\* the lengths of file content tried
ContentLengths == { 0, 1, 6000, 11999, 12000, 12001, 14999, 15000, 15001, 15002, 20000, 30000 }

\* contentToSend, piece by piece: fileContent.substring(from, to), or the
\* marker line with the number of characters it states (NoCount: none stated)
NoCount == -1
Slice(from, to) == [kind |-> "slice", from |-> from, to |-> to, omitted |-> 0]
Marker(omitted) == [kind |-> "marker", from |-> 0, to |-> 0, omitted |-> omitted]

\* lines 98-113: contentToSend of generateFileExplanation for content of charCount characters
explanationContent(charCount) ==
    LET maxChars == maxCharsExplanation
        halfLimit == maxChars \div 2
    IN IF charCount > maxChars
       THEN <<Slice(0, halfLimit), Marker(charCount - maxChars), Slice(charCount - halfLimit, charCount)>>
       ELSE <<Slice(0, charCount)>>

\* lines 195-207: contentToSend of generateCodeQuestionResponse
questionContent(charCount) ==
    LET maxChars == maxCharsQuestion
        halfLimit == maxChars \div 2
    IN IF charCount > maxChars
       THEN <<Slice(0, halfLimit), Marker(NoCount), Slice(charCount - halfLimit, charCount)>>
       ELSE <<Slice(0, charCount)>>

CallExplanationContent ==
    /\ call = NoCall
    /\ \E charCount \in ContentLengths :
          call' = [fn |-> "generateFileExplanation", args |-> <<charCount>>,
                   ret |-> explanationContent(charCount)]
    /\ UNCHANGED <<sinceLastCall, queue, ops, storage, sinceLastReq, app, provider>>

CallQuestionContent ==
    /\ call = NoCall
    /\ \E charCount \in ContentLengths :
          call' = [fn |-> "generateCodeQuestionResponse", args |-> <<charCount>>,
                   ret |-> questionContent(charCount)]
    /\ UNCHANGED <<sinceLastCall, queue, ops, storage, sinceLastReq, app, provider>>

\* the longest file content tried, in items
MaxItems == 4

\* file content, item by item: an import statement (of a module), an export
\* declaration (of a name), a call of a hook, a fetch call with a literal url,
\* the export of a function that is called like a hook in the same breath
\* (matched by exportRegex and by hookRegex), or text no regex matches
Item(kind, name) == [kind |-> kind, name |-> name]
Items ==
    { Item("import", "m1"), Item("import", "m2"), Item("export", "E"), Item("hook", "useA"),
      Item("hook", "useB"), Item("fetch", "/u"), Item("exportHook", "useA"), Item("text", "") }
FileContents == UNION { [1 .. n -> Items] : n \in 0 .. MaxItems }

\* the capture groups of the matches of one regex, in the order exec finds them
Matches(content, kinds) ==
    LET found == SelectSeq(content, LAMBDA item : item.kind \in kinds)
    IN [i \in DOMAIN found |-> found[i].name]

\* the hooks are not deduplicated
analyzeFileKeepAll(content) ==
    [imports |-> Matches(content, {"import"}),
     exports |-> Matches(content, {"export", "exportHook"}),
     hooks |-> Matches(content, {"hook", "exportHook"}),
     apiCalls |-> Matches(content, {"fetch"}),
     threw |-> FALSE]

\* StaticAnalysisService.analyzeFile: four loops of regex.exec over the
\* content; only the hooks are pushed when not yet included
analyzeFile(content) ==
    [imports |-> Matches(content, {"import"}),
     exports |-> Matches(content, {"export", "exportHook"}),
     hooks |-> Dedup(Matches(content, {"hook", "exportHook"})),
     apiCalls |-> Matches(content, {"fetch"}),
     threw |-> FALSE]

CallAnalyzeFile ==
    /\ call = NoCall
    /\ \E content \in FileContents :
          call' = [fn |-> "analyzeFile", args |-> <<content>>, ret |-> analyzeFile(content)]
    /\ UNCHANGED <<sinceLastCall, queue, ops, storage, sinceLastReq, app, provider>>

\* the helper returns to its caller
Return ==
    /\ call # NoCall
    /\ call' = NoCall
    /\ UNCHANGED <<sinceLastCall, queue, ops, storage, sinceLastReq, app, provider>>

HelperNext ==
    \/ CallGet
    \/ CallSet
    \/ CallGenerateKey
    \/ CallServiceConvert
    \/ CallConvert
    \/ CallParseDiagramJson
    \/ CallExtractArchitectureData
    \/ CallGenerateDiagram
    \/ CallGenerateLocalArchitecture
    \/ CallGenerateTreeRepresentation
    \/ CallExplanationContent
    \/ CallQuestionContent
    \/ CallAnalyzeFile
    \/ Return

HelperSpec == Init /\ [][HelperNext]_vars

-----------------------------------------------------------------------------
(* App: RepoProvider and AppContent *)

\* the build's REACT_APP_GEMINI_API_KEY (none or one), the keys typed, and the
\* texts typed into the repository field: "G" is github.com, "W" white space
EnvKeys == {"", "e"}
RepoUrls == { << >>, <<"W">>, <<"x">>, <<"G", "/", "o1">>,
              <<"G", "/", "o1", "/", "a">>, <<"G", "/", "o2", "/", "b">>,
              <<"W", "G", "/", "o1", "/", "a">>, <<"G", "/", "o2", "/", "b", "/", "src">> }
RepoResponses == {"ok", "notOk", "neterr"}

\* the longest run of [^\/] that starts at position k of url
RECURSIVE Segment(_, _)
Segment(url, k) ==
    IF k > Len(url) \/ url[k] = "/" THEN << >> ELSE <<url[k]>> \o Segment(url, k + 1)

\* repoUrl.match(/github\.com\/([^\/]+)\/([^\/]+)/): owner and repo of the first match
matchRepoUrl(url) ==
    LET starts == { k \in DOMAIN url :
                      /\ url[k] = "G"
                      /\ k + 1 <= Len(url) /\ url[k + 1] = "/"
                      /\ Segment(url, k + 2) # << >>
                      /\ LET next == k + 2 + Len(Segment(url, k + 2))
                         IN  next <= Len(url) /\ Segment(url, next + 1) # << >> }
    IN  IF starts = { } THEN None
        ELSE LET k == CHOOSE first \in starts : \A other \in starts : first <= other
                 owner == Segment(url, k + 2)
             IN  Some([owner |-> owner, name |-> Segment(url, k + 3 + Len(owner))])

\* what AppContent renders
LoadingScreen == {"Fetching Repository..."}
WelcomeScreen == {"Codebase Explainer", "Analyze Any GitHub Repository", "form"}
RepositoryView == {"Codebase Explainer", "FileTree", "SearchAndAsk", "ExplanationDisplay"}

\* AppContent: if (loading) return the spinner; !repo ? welcome (with the error box) : main view
AppContentInverted(repo, loading, error) ==
    IF loading THEN LoadingScreen
    ELSE IF repo # None THEN WelcomeScreen \cup (IF error # None THEN {"Error"} ELSE { })
    ELSE RepositoryView
AppContent(repo, loading, error) ==
    IF loading THEN LoadingScreen
    ELSE IF repo = None THEN WelcomeScreen \cup (IF error # None THEN {"Error"} ELSE { })
    ELSE RepositoryView

Rendered == AppContent(app.repo, app.loading, app.error)

\* onChange of the repository field (part of the welcome screen)
SetRepoUrl(url) ==
    /\ "form" \in Rendered
    /\ app' = [app EXCEPT !.repoUrl = url]
    /\ UNCHANGED <<sinceLastCall, queue, ops, storage, sinceLastReq, call, provider>>

\* onChange of the key field of the header, disabled when the build has a key
SetApiKey(key) ==
    /\ "Codebase Explainer" \in Rendered
    /\ app.envKey = ""
    /\ app' = [app EXCEPT !.apiKey = key]
    /\ UNCHANGED <<sinceLastCall, queue, ops, storage, sinceLastReq, call, provider>>

\* fetchRepo up to its await: setLoading(true); setError(null); fetchGitHubRepo(url)
fetchRepo(url) == [app EXCEPT !.loading = TRUE, !.error = None, !.fetching = Some(url)]

\* handleSubmit, behind the submit button (disabled={!repoUrl || !apiKey})
handleSubmit ==
    /\ "form" \in Rendered
    /\ app.repoUrl # << >> /\ app.apiKey # ""
    /\ app' = IF Trim(app.repoUrl) # << >> THEN fetchRepo(app.repoUrl) ELSE app
    /\ UNCHANGED <<sinceLastCall, queue, ops, storage, sinceLastReq, call, provider>>

\* fetchGitHubRepo settles and fetchRepo runs to its end: setRepo(repoData) or
\* setError(message), and setLoading(false) in finally
SettleFetchRepo ==
    /\ app.fetching # None
    /\ LET found == matchRepoUrl(The(app.fetching))
           done == [app EXCEPT !.loading = FALSE, !.fetching = None]
       IN  IF found = None
           THEN app' = [done EXCEPT !.error = Some("Invalid GitHub URL")]
           ELSE \E response \in RepoResponses :
                    app' = CASE response = "ok" -> [done EXCEPT !.repo = found]
                             [] response = "notOk" ->
                                    [done EXCEPT !.error = Some("Failed to fetch repository")]
                             [] OTHER -> [done EXCEPT !.error = Some("Failed to fetch")]
    /\ UNCHANGED <<sinceLastCall, queue, ops, storage, sinceLastReq, call, provider>>

AppNext ==
    \/ \E url \in RepoUrls : SetRepoUrl(url)
    \/ \E key \in ApiKeys : SetApiKey(key)
    \/ handleSubmit
    \/ SettleFetchRepo

AppInit ==
    /\ sinceLastCall = MIN_INTERVAL
    /\ queue = 0
    /\ ops = << >>
    /\ storage = << >>
    /\ sinceLastReq = MIN_INTERVAL
    /\ call = NoCall
    /\ app \in { InitialApp(envKey) : envKey \in EnvKeys }
    /\ provider = InitialProvider

AppSpec == AppInit /\ [][AppNext]_vars

-----------------------------------------------------------------------------
(* ExplanationProvider *)

\* the largest number of calls of the provider's functions in a session
MaxCalls == 3

\* the items explained: files whose content is loaded, a file without content,
\* a directory; and the files asked about
ExplainedItems ==
    { [path |-> "a.ts", type |-> "file", content |-> TRUE],
      [path |-> "b.ts", type |-> "file", content |-> TRUE],
      [path |-> "c.ts", type |-> "file", content |-> FALSE],
      [path |-> "src", type |-> "dir", content |-> FALSE] }
QuestionPaths == {"a.ts"}

\* how the awaited call of geminiApi ends: it resolves with the text of the
\* model or with the degraded result of callGeminiAPI, or it rejects
ExplanationOutcomes == {"text", "degraded", "threw"}

\* the key of explanations: item.path, or filePath_question_<time> with the
\* number of the call for the time
explanationKey(path) == [path |-> path, question |-> 0]
questionKey(path, n) == [path |-> path, question |-> n]

\* setExplanations(prev => ({...prev, [key]: explanation}))
setExplanations(prev, key, explanation) ==
    [k \in DOMAIN prev \cup {key} |-> IF k = key THEN explanation ELSE prev[k]]

\* the record of a call: the function, its key, where it is, what it found or got
ProviderCall(fn, key, pc, result) == [fn |-> fn, key |-> key, pc |-> pc, result |-> result]

\* lines 40-64: generateExplanation(item, content) up to its await, or to its
\* end when it returns early or has no content to explain
generateExplanation(item) ==
    /\ Len(provider.calls) < MaxCalls
    /\ LET key == explanationKey(item.path)
           logged(pc, result) ==
               Append(provider.calls, ProviderCall("generateExplanation", key, pc, result))
       IN  IF key \in DOMAIN provider.explanations
           THEN provider' = [provider EXCEPT
                               !.calls = logged("early", provider.explanations[key])]
           ELSE IF item.type # "dir" /\ ~item.content
           THEN provider' = [provider EXCEPT
                               !.explanations = setExplanations(@, key, "nocontent"),
                               !.generating = FALSE,
                               !.error = None,
                               !.calls = logged("done", "nocontent")]
           ELSE provider' = [provider EXCEPT
                               !.generating = TRUE,
                               !.error = None,
                               !.calls = logged("pending", "-")]
    /\ UNCHANGED <<sinceLastCall, queue, ops, storage, sinceLastReq, call, app>>

\* lines 78-90: generateQuestionResponse(question, filePath, fileContent) up to its await
generateQuestionResponse(filePath) ==
    /\ Len(provider.calls) < MaxCalls
    /\ provider' = [provider EXCEPT
                      !.generating = TRUE,
                      !.error = None,
                      !.calls = Append(@, ProviderCall("generateQuestionResponse",
                                                       questionKey(filePath, Len(@) + 1),
                                                       "pending", "-"))]
    /\ UNCHANGED <<sinceLastCall, queue, ops, storage, sinceLastReq, call, app>>

\* lines 66-75 and 91-105: the awaited promise settles: setExplanations or
\* setError(err.message), and setGenerating(false) in finally
settleProviderCall(state, i, outcome) ==
    [state EXCEPT
        !.explanations = IF outcome = "threw" THEN @
                         ELSE setExplanations(@, state.calls[i].key, outcome),
        !.error = IF outcome = "threw" THEN Some("message") ELSE @,
        !.generating = FALSE,
        !.calls[i] = [@ EXCEPT !.pc = "done", !.result = outcome]]

SettleProviderCall(i) ==
    /\ i \in DOMAIN provider.calls
    /\ provider.calls[i].pc = "pending"
    /\ \E outcome \in ExplanationOutcomes : provider' = settleProviderCall(provider, i, outcome)
    /\ UNCHANGED <<sinceLastCall, queue, ops, storage, sinceLastReq, call, app>>

ProviderNext ==
    \/ \E item \in ExplainedItems : generateExplanation(item)
    \/ \E filePath \in QuestionPaths : generateQuestionResponse(filePath)
    \/ \E i \in 1 .. MaxCalls : SettleProviderCall(i)

ProviderSpec == Init /\ [][ProviderNext]_vars

----------------------------------------------------------------------------
(* Properties *)

Scheduled(i) == i \in Ids /\ ops[i].pred # -1
InBody(i) == ops[i].pc \in {"fetch", "backoff", "retryAfter", "running"}
AnyFetchBefore == \E j \in Ids : ops[j].nreq > 0

\* C1: the bodies of the operations given to schedule run one at a time in
\* submission order: an operation's body has not begun while an operation
\* submitted before it is unsettled, so at most one body is in progress
C1_OneAtATimeInOrder ==
    /\ \A i, j \in Ids :
          (i < j /\ Scheduled(i) /\ Scheduled(j) /\ ops[j].began) => Settled(i)
    /\ Cardinality({ i \in Ids : InBody(i) }) <= 1

\* C1 witness: the second operation was submitted while the first was
\* unsettled, the first made a retry, and the second has begun after it
C1_Witness ==
    /\ Len(ops) = 2
    /\ Scheduled(1) /\ Scheduled(2)
    /\ ~ops[2].seq
    /\ ops[1].nreq >= 2
    /\ ops[2].began

\* C2: whenever an operation body starts (lastCallTime is written), at least
\* MIN_INTERVAL has passed since the previous body started
C2_StartsSpaced ==
    [][\A i \in Ids :
          (~ops[i].began /\ ops'[i].began) =>
              /\ sinceLastCall >= MIN_INTERVAL
              /\ sinceLastCall' = 0]_vars

\* C2 witness: the first operation failed, and the second slept for the
\* spacing and then began
C2_Witness ==
    /\ Len(ops) = 2
    /\ ops[1].pc = "rejected" /\ ops[1].began
    /\ ops[2].spaced /\ ops[2].began

\* C3 as claimed: whenever a fetch of the inference endpoint is issued, at
\* least MIN_INTERVAL has passed since the previous fetch, of any operation
C3_RequestsSpaced ==
    [][\A i \in Ids :
          (ops'[i].nreq > ops[i].nreq /\ AnyFetchBefore) =>
              sinceLastReq >= MIN_INTERVAL]_vars

\* C4: a failing operation does not stall the queue: every operation given to
\* schedule eventually begins its body, and a rejection reaches only the
\* promise of the operation whose body threw
C4_FailureDoesNotStall ==
    /\ [](\A i \in Ids : ops[i].pc = "rejected" => ops[i].err = i)
    /\ \A j \in 1 .. MaxOps : Scheduled(j) ~> (j \in Ids /\ ops[j].began)

\* C4 witness: the first operation's body threw, and the second, submitted
\* before that, has begun
C4_Witness ==
    /\ Len(ops) = 2
    /\ ops[1].pc = "rejected" /\ ops[1].began
    /\ Scheduled(2) /\ ~ops[2].seq /\ ops[2].began /\ ops[2].err = 0

\* a diagram request that missed the cache
Missed(i) == ops[i].kind = "diagram" /\ ops[i].cache # "hit"
AiDiagrams == { convertJsonToMermaid(o) : o \in {"ok1", "ok2"} }

C6_TextNeverRejects ==
    \A i \in Ids : (ops[i].kind = "text" /\ Scheduled(i)) =>
        /\ ops[i].pc # "rejected"
        /\ ops[i].pc = "resolved" =>
              \/ /\ ops[i].result.tag = "text"
                 /\ ops[i].result.codeSnippets = extractCodeSnippets(ops[i].result.val)
              \/ /\ ops[i].result \in {RateLimitMessage, FailedMessage}
                 /\ ops[i].result.codeSnippets = << >>
                 /\ ops[i].nreq >= modelCount
                 /\ ops[i].nreq <= modelCount * maxRetriesText

\* C6 witness: a free-text call has used every model and every retry and
\* resolved with the degraded result
C6_Witness ==
    \E i \in Ids :
        /\ ops[i].kind = "text" /\ ops[i].pc = "resolved"
        /\ ops[i].result.tag = "degraded"
        /\ ops[i].nreq = modelCount * maxRetriesText

\* the call made in this step, if one is made
NewCall == Len(ops') = Len(ops) + 1
NewId == Len(ops) + 1

\* C7: a diagram request whose key holds an unexpired entry returns that
\* entry's text, issues no fetch, does not enter the queue and leaves
\* lastCallTime, the queue and the cache as they were
C7_CacheHitIsFree ==
    [][(/\ NewCall
        /\ ops'[NewId].kind = "diagram"
        /\ DiagramKey(ops'[NewId].repo) \in DOMAIN storage
        /\ storage[DiagramKey(ops'[NewId].repo)].age <= CACHE_EXPIRY_MS)
       =>
       (/\ ops'[NewId].pc = "resolved"
        /\ ops'[NewId].result = storage[DiagramKey(ops'[NewId].repo)].data
        /\ ops'[NewId].nreq = 0
        /\ ops'[NewId].pred = -1
        /\ \A i \in Ids : ops'[i] = ops[i]
        /\ UNCHANGED <<sinceLastCall, queue, storage, sinceLastReq>>)]_vars

\* C7 witness: a request was served the diagram an earlier request had cached
C7_Witness ==
    \E i, j \in Ids :
        /\ j < i
        /\ Missed(j) /\ ops[j].pc = "resolved" /\ ops[j].result \in AiDiagrams
        /\ ops[i].cache = "hit"
        /\ ops[i].pc = "resolved"
        /\ ops[i].result = ops[j].result
        /\ ops[i].nreq = 0

\* the step resolves diagram request i with a synthesized / a fallback diagram
Succeeds(i) ==
    /\ ops[i].kind = "diagram" /\ ops[i].pc = "fetch"
    /\ ops'[i].pc = "resolved" /\ ops'[i].result \in AiDiagrams
FallsBack(i) ==
    /\ ops[i].kind = "diagram" /\ ~Settled(i)
    /\ ops'[i].pc = "resolved" /\ ops'[i].result.tag = "fallback"

\* the step writes the entry of key k
Written(k) ==
    /\ k \in DOMAIN storage'
    /\ \/ k \notin DOMAIN storage
       \/ storage'[k].data # storage[k].data
       \/ storage'[k].age < storage[k].age

\* every entry written is the diagram the writing request returns, under its key
WrittenOnSuccessOnly ==
    \A k \in DOMAIN storage' : Written(k) =>
        \E i \in Ids : /\ Succeeds(i)
                       /\ k = DiagramKey(ops[i].repo)
                       /\ storage'[k].data = ops'[i].result

C9_RetryCap ==
    /\ \A i \in Ids : ops[i].kind = "diagram" =>
          /\ ops[i].nreq <= maxRetriesDiagram
          /\ ~Settled(i) =>
                /\ ops[i].attempt < maxRetriesDiagram
                /\ ops[i].nreq = ops[i].attempt +
                      (IF ops[i].pc \in {"fetch", "retryAfter"} THEN 1 ELSE 0)
    /\ \A i, j \in Ids :
          (/\ i < j /\ Missed(i) /\ Missed(j) /\ ops[i].repo = ops[j].repo
           /\ ops[i].pc = "resolved" /\ ops[i].result \notin AiDiagrams
           /\ ops[j].pc = "resolved" /\ ops[j].result \notin AiDiagrams)
          =>
          /\ ops[i].result = generateLocalArchitecture(ops[i].tree)
          /\ ops[j].result = generateLocalArchitecture(ops[j].tree)
          /\ ops[i].nreq + ops[j].nreq <= 2 * maxRetriesDiagram

\* C9 witness: two requests for one repository, the second made after the
\* first had resolved, each made three fetches and returned the fallback
C9_Witness ==
    /\ Len(ops) = 2
    /\ Missed(1) /\ Missed(2) /\ ops[1].repo = ops[2].repo
    /\ ops[2].seq
    /\ \A i \in {1, 2} : /\ ops[i].pc = "resolved"
                         /\ ops[i].nreq = maxRetriesDiagram
                         /\ ops[i].result = generateLocalArchitecture(ops[i].tree)

C11_GetSetNeverThrow ==
    /\ call.fn = "get" =>
          /\ ~call.ret.threw
          /\ (~call.args[2] \/ ~WellFormed(call.args[1])) => call.ret.value = Null
    /\ call.fn = "set" =>
          /\ ~call.ret.threw
          /\ ~call.args[4] => call.ret.store = call.args[1]

\* C12 as claimed: generateKey is collision-resistant: no other triple of
\* inputs yields the key of this one
C12_KeysDistinct ==
    call.fn = "generateKey" =>
        \A in \in KeyInputs :
            in # call.args => generateKey(in[1], in[2], in[3]) # call.ret

\* entries the storage may hold from an earlier session
PriorKeys == UNION { DOMAIN store : store \in PriorStorage }

\* C13 as claimed: a diagram a request is served from the cache was cached by
\* a request for the same repository (same owner and same name), never by a
\* request for another one
C13_KeyIdentifiesRepository ==
    \A j \in Ids :
        (/\ ops[j].kind = "diagram" /\ ops[j].cache = "hit"
         /\ DiagramKey(ops[j].repo) \notin PriorKeys)
        =>
        \E i \in 1 .. j - 1 :
            /\ Missed(i) /\ ops[i].pc = "resolved"
            /\ ops[i].result = ops[j].result
            /\ ops[i].owner = ops[j].owner /\ ops[i].repo = ops[j].repo

\* C14 as claimed, for the free-text operations (every one of them is a call
\* of callGeminiAPI with its prompt): a call repeated after the same call was
\* answered by the endpoint, within the time to live (the repeat was made after
\* the first had resolved and began less than MIN_INTERVAL after the first
\* began), is served from the cache and issues no inference request
C14_RepeatIsCached ==
    \A i, j \in Ids :
        (/\ i < j
         /\ ops[i].kind = "text" /\ ops[i].pc = "resolved" /\ ops[i].result.tag = "text"
         /\ ops[j].kind = "text" /\ Scheduled(j) /\ ops[j].seq /\ ops[j].spaced)
        => ops[j].nreq = 0

\* components a and b of one layer, and the relationship from a to c
ExampleData(named) ==
    ArchitectureData(<<Component(IdA, IF named THEN "A" ELSE Missing, IF named THEN "ui" ELSE Missing),
                       Component(IdB, IF named THEN "A" ELSE Missing, IF named THEN "ui" ELSE Missing)>>,
                     <<Relationship(IdA, IdC, "calls")>>,
                     IF named THEN Some(<<"ui">>) ELSE None)

\* C15 as claimed: a synthesizer given ArchitectureData emits no edge unless
\* both of its endpoints were emitted as nodes, and for components a and b with
\* the relationship from a to c it emits the two nodes and no edge
C15_NoDanglingEdge ==
    call.fn \in {"ArchitectureGenerator.convertJsonToMermaid", "convertJsonToMermaid"} =>
        /\ \A e \in Range(call.ret.edges) :
              e[1] \in Range(call.ret.nodes) /\ e[2] \in Range(call.ret.nodes)
        /\ (/\ call.fn = "ArchitectureGenerator.convertJsonToMermaid"
            /\ call.args[1] \in { ExampleData(named) : named \in BOOLEAN })
           => /\ ~call.ret.threw
              /\ call.ret.nodes = <<IdA, IdB>>
              /\ call.ret.edges = << >>

\* the ids of the components of ArchitectureData
ComponentIds(data) == { data.components[i].id : i \in DOMAIN data.components }

\* the data without the relationships that have an endpoint missing
Repaired(data) ==
    [data EXCEPT !.relationships =
        Some(SelectSeq(The(data.relationships),
                       LAMBDA r : r.from \in ComponentIds(data) /\ r.to \in ComponentIds(data)))]

\* C16 as claimed: the ArchitectureData extractArchitectureData returns has no
\* relationship with an endpoint that is not a component, and a response that
\* is a JSON document with such relationships is returned without them and
\* without an error
C16_DanglingDropped ==
    call.fn = "extractArchitectureData" =>
        /\ (~call.ret.threw /\ call.ret.data.relationships # None) =>
              \A r \in Range(The(call.ret.data.relationships)) :
                  r.from \in ComponentIds(call.ret.data) /\ r.to \in ComponentIds(call.ret.data)
        /\ \A d \in {"D1", "D2"} :
              call.args[1] = <<d>> =>
                  ~call.ret.threw /\ call.ret.data = Repaired(DocData(d))

\* the top-level directories of a tree other than node_modules
OtherTopDirs(tree) ==
    { i \in DOMAIN tree.children :
        tree.children[i].type = "dir" /\ tree.children[i].name # "node_modules" }

\* C17 as claimed: generateLocalArchitecture writes no node for a directory
\* named node_modules, .git or dist, and for a root with a node_modules
\* directory and three other top-level directories it writes a node under
\* root for each of the three
C17_SkipsDependencyDirs ==
    call.fn = "generateLocalArchitecture" =>
        LET tree == call.args[1]
            lines == call.ret.lines
        IN
        /\ \A l \in Range(lines) : l.label \notin SkippedDirs
        /\ (/\ \E i \in DOMAIN tree.children :
                  tree.children[i].type = "dir" /\ tree.children[i].name = "node_modules"
            /\ Cardinality(OtherTopDirs(tree)) = 3)
           => \A i \in OtherTopDirs(tree) :
                 \E l \in Range(lines) : l.parent = RootId /\ l.label = tree.children[i].name

\* C18 as claimed: content of at most the budget (15000 for the file
\* explanation, 12000 for question answering) is in the prompt whole and with no
\* marker; longer content is its first half budget, one marker stating the
\* length minus the budget, and its last half budget
C18_TruncationKeepsEnds ==
    call.fn \in {"generateFileExplanation", "generateCodeQuestionResponse"} =>
        LET charCount == call.args[1]
            budget == IF call.fn = "generateFileExplanation" THEN 15000 ELSE 12000
        IN IF charCount <= budget
           THEN call.ret = <<Slice(0, charCount)>>
           ELSE call.ret = <<Slice(0, budget \div 2), Marker(charCount - budget),
                             Slice(charCount - budget \div 2, charCount)>>

\* the number of items of the content, of given kinds, that carry a name
Count(content, kinds, name) ==
    Cardinality({ i \in DOMAIN content : content[i].kind \in kinds /\ content[i].name = name })
Occurrences(list, name) == Cardinality({ i \in DOMAIN list : list[i] = name })
Names == { item.name : item \in Items }

\* list holds the names of the items of those kinds in the order of the content
InDiscoveryOrder(list, content, kinds) ==
    /\ \A name \in Names : Occurrences(list, name) = Count(content, kinds, name)
    /\ \E at \in [DOMAIN list -> DOMAIN content] :
          /\ \A i, j \in DOMAIN list : i < j => at[i] < at[j]
          /\ \A i \in DOMAIN list : content[at[i]].name = list[i] /\ content[at[i]].kind \in kinds

\* C19: analyzeFile returns without throwing, its hooks hold every hook found
\* once, and imports, exports and apiCalls hold every match in the order found
C19_HooksUnique ==
    call.fn = "analyzeFile" =>
        LET content == call.args[1] IN
        /\ ~call.ret.threw
        /\ \A name \in Names :
              Occurrences(call.ret.hooks, name) =
                 (IF Count(content, {"hook", "exportHook"}, name) > 0 THEN 1 ELSE 0)
        /\ InDiscoveryOrder(call.ret.imports, content, {"import"})
        /\ InDiscoveryOrder(call.ret.exports, content, {"export", "exportHook"})
        /\ InDiscoveryOrder(call.ret.apiCalls, content, {"fetch"})

\* C19 witness: content that calls one hook twice and imports one module twice
\* was analyzed: the hook is listed once, the module twice
C19_Witness ==
    /\ call.fn = "analyzeFile"
    /\ Count(call.args[1], {"hook", "exportHook"}, "useA") = 2
    /\ Count(call.args[1], {"import"}, "m1") = 2
    /\ call.ret.hooks = <<"useA">>
    /\ call.ret.imports = <<"m1", "m1">>

Wrapped(d, tagged) ==
    IF tagged THEN <<"F", "json", "W", d, "W", "F">> ELSE <<"F", "W", d, "W", "F">>

\* C20 as claimed: a response that wraps a JSON document in a fenced block,
\* tagged json or bare, is parsed to the data that parsing the document itself
\* gives, by the diagram workflow and by extractArchitectureData
C20_FenceStripped ==
    call.fn \in {"parseDiagramJson", "extractArchitectureData"} =>
        \A d \in JsonDocs, tagged \in BOOLEAN :
            call.args[1] = Wrapped(d, tagged) => call.ret = JsonParse(<<d>>)

\* C21 as claimed: an AI-backed operation called without an API key fails at
\* once: it is rejected without entering the queue and issues no request (a
\* diagram request served from the cache aside)
C21_MissingKeyFailsAtOnce ==
    \A i \in Ids :
        (ops[i].kind \in {"text", "diagram"} /\ ops[i].apiKey = "" /\ ops[i].cache # "hit")
        => /\ ops[i].pc = "rejected"
           /\ ops[i].pred = -1
           /\ ops[i].nreq = 0

\* C22: a freshly mounted App (no fetch started: repo null, loading false,
\* error null) shows the welcome screen with its heading and neither the
\* loading screen nor the repository view; and the repository view is shown
\* only while repo is set and loading is false
C22_InitialScreen ==
    /\ (app.repo = None /\ ~app.loading /\ app.error = None /\ app.fetching = None)
       => /\ "Analyze Any GitHub Repository" \in Rendered
          /\ Rendered \cap (LoadingScreen \cup {"FileTree"}) = { }
    /\ "FileTree" \in Rendered => (app.repo # None /\ ~app.loading)

\* a repository was fetched and its view is on screen
C22_Witness == "FileTree" \in Rendered /\ app.repo # None /\ app.fetching = None

\* the step in which operation i receives a 429 response to its request
Got429(i) ==
    /\ ops[i].pc = "fetch"
    /\ ops'[i].status429
    /\ ops'[i].pc # "fetch" \/ ops'[i].nreq # ops[i].nreq

\* C23 as claimed: an operation that receives a 429 issues no request in the
\* step that handles it: it is left waiting on a timer that has time to run
\* (or has ended, the 429 being its last pass)
C23_WaitAfter429 ==
    [][\A i \in Ids :
          Got429(i) => /\ ops'[i].nreq = ops[i].nreq
                       /\ \/ ops'[i].pc \in {"resolved", "rejected"}
                          \/ ops'[i].pc \in {"retryAfter", "backoff"} /\ ops'[i].timer > 0]_vars

\* C24: callGeminiAPI tries the models in the order of modelNames: the first
\* request goes to the first model, a request to the next model is issued
\* only by the step that handles a failed response (or the end of its
\* Retry-After wait) of the model before, no model is gone back to, each
\* model receives at most maxRetries requests, an operation issues at most
\* maxRetries times the number of models (4), and none once it has returned
C24_ModelsInOrder ==
    [][\A i \in Ids :
          ops[i].kind = "text" =>
             /\ ops'[i].mreq <= maxRetriesText
             /\ ops'[i].nreq <= maxRetriesText * modelCount
             /\ ops'[i].model < modelCount
             /\ ops[i].nreq = 0 /\ ops'[i].nreq > 0 => ops'[i].model = 0
             /\ ~Settled(i) /\ ops'[i].pc \notin {"resolved", "rejected"}
                   => ops'[i].model \in {ops[i].model, ops[i].model + 1}
             /\ ops'[i].model > ops[i].model
                   => /\ ops[i].pc \in {"fetch", "retryAfter"}
                      /\ ops[i].mreq >= 1
                      /\ ops'[i].mreq = 1
             /\ Settled(i) => ops'[i].nreq = ops[i].nreq]_vars

\* the second model is being sent its second request, the fourth of the call
C24_Witness ==
    \E i \in Ids : /\ ops[i].kind = "text" /\ ops[i].pc = "fetch"
                   /\ ops[i].model = 1 /\ ops[i].mreq = maxRetriesText
                   /\ ops[i].nreq = maxRetriesText * modelCount

\* C25 as claimed: generateDiagram never rejects: on content that is a
\* degraded result or not parseable as architecture JSON it resolves with a
\* diagram
C25_GenerateDiagramResolves ==
    (call.fn = "generateDiagram" /\ extractArchitectureData(call.args[1]).threw)
    => ~call.ret.rejected

\* the passes of its retry loops an operation has left, the current one included
PassesLeft(r) ==
    IF r.kind = "text" THEN (modelCount - r.model) * maxRetriesText - r.attempt
    ELSE maxRetriesDiagram - r.attempt

\* the step in which operation i, its request answered, goes on to another pass
Retries(i) ==
    /\ ops[i].pc \in {"fetch", "retryAfter"}
    /\ ops'[i].pc = "backoff" \/ ops'[i].nreq > ops[i].nreq

\* C26: when time passes and every fetch and timer completes, every operation
\* given to the queue eventually starts and every diagram and free-text
\* request among them eventually resolves; and every retry (after a 429 with
\* Retry-After, a thrown error, a parse failure) uses up a pass of the loops
C26_EveryRequestEnds ==
    /\ \A j \in 1 .. MaxOps :
          Scheduled(j) ~> /\ j \in Ids /\ ops[j].began
                          /\ ops[j].kind \in {"diagram", "text"} => ops[j].pc = "resolved"
    /\ [][\A i \in Ids :
             Retries(i) => /\ PassesLeft(ops'[i]) < PassesLeft(ops[i])
                           /\ PassesLeft(ops'[i]) >= 1]_vars

\* a free-text request and a diagram request have both resolved after
\* every pass of their loops was used
C26_Witness ==
    /\ Len(ops) = 2
    /\ \E i, j \in Ids :
          /\ ops[i].kind = "text" /\ ops[i].pc = "resolved"
          /\ ops[i].nreq = maxRetriesText * modelCount
          /\ ops[j].kind = "diagram" /\ ops[j].pc = "resolved"
          /\ ops[j].nreq = maxRetriesDiagram

\* C27 as claimed: generateLocalArchitecture writes at most MAX_NODES nodes
\* besides root and the marker
C27_NodeBudget ==
    call.fn = "generateLocalArchitecture" => Len(call.ret.lines) <= MAX_NODES

\* C28 as claimed: every node generateLocalArchitecture writes is a direct
\* child of the repository root
C28_TopLevelOnly ==
    call.fn = "generateLocalArchitecture" =>
        \A l \in Range(call.ret.lines) : l.parent = RootId

\* the top-level entries of a tree that generateLocalArchitecture shows
Eligible(tree) == relevantChildren(tree)

\* C29 as claimed: the levels are written one after the other: if a node was
\* written for an entry inside a top-level directory, then a node was written
\* for every eligible top-level entry
C29_BreadthFirst ==
    call.fn = "generateLocalArchitecture" =>
        LET lines == call.ret.lines
            top == SelectSeq(lines, LAMBDA l : l.parent = RootId)
        IN  (\E l \in Range(lines) : l.parent # RootId)
            => Len(top) = Len(Eligible(call.args[1]))

\* the lines written under the node with the given id are, in order, those of
\* the first eligible children of its directory, and so on below each of them
RECURSIVE MirrorsTree(_, _, _)
MirrorsTree(node, nodeId, lines) ==
    LET under == SelectSeq(lines, LAMBDA l : l.parent = nodeId)
        children == relevantChildren(node)
    IN  /\ Len(under) <= Len(children)
        /\ \A k \in DOMAIN under :
              /\ under[k].label = children[k].name
              /\ MirrorsTree(children[k], under[k].id, lines)

\* C30: the output of generateLocalArchitecture has the offline marker, and
\* its nodes form a tree under root: no id is written twice, every node has
\* its one edge from root or from a node written before it, and that node is
\* the one of its parent directory
C30_TreeUnderRoot ==
    call.fn = "generateLocalArchitecture" =>
        LET lines == call.ret.lines IN
        /\ call.ret.marker
        /\ \A a, b \in DOMAIN lines : lines[a].id = lines[b].id => a = b
        /\ \A a \in DOMAIN lines :
              \/ lines[a].parent = RootId
              \/ \E b \in 1 .. a - 1 : lines[b].id = lines[a].parent
        /\ lines = << >> <=> relevantChildren(call.args[1]) = << >>
        /\ MirrorsTree(call.args[1], RootId, lines)

\* a tree was drawn that has nodes on two levels
C30_Witness ==
    /\ call.fn = "generateLocalArchitecture"
    /\ \E l, m \in Range(call.ret.lines) : l.parent = RootId /\ m.parent = l.id

\* C31 as claimed: the outline of the diagram prompt and the local fallback
\* leave the tree they are given as it was: every node has the same children
\* in the same order after the call
C31_TreeReadOnly ==
    call.fn \in {"generateTreeRepresentation", "generateLocalArchitecture"}
    => call.ret.tree = call.args[1]

\* the line of the directory that the entry of line a is listed in (0: the root)
ListedIn(lines, a) ==
    LET above == { b \in 1 .. a - 1 : Len(lines[b].prefix) = Len(lines[a].prefix) - 1 }
    IN  IF above = { } THEN 0 ELSE CHOOSE b \in above : \A c \in above : c <= b

\* the node of the tree that line a lists (the tree itself for 0)
RECURSIVE NodeListed(_, _, _)
NodeListed(tree, lines, a) ==
    IF a = 0 THEN tree
    ELSE LET dir == NodeListed(tree, lines, ListedIn(lines, a))
         IN  CHOOSE child \in Range(dir.children) : child.name = lines[a].name

\* C34 as claimed: the outline lists no entry more than MAX_TREE_DEPTH levels
\* below the root and at most MAX_CHILDREN_PER_DIR entries of a directory,
\* and a listed directory has one summary line, counting the entries left
\* out, exactly when it has more entries that are not ignored than that
C34_OutlineBounded ==
    call.fn = "generateTreeRepresentation" =>
        LET tree == call.args[1]
            lines == call.ret.lines
            entries(p) == { a \in DOMAIN lines : ListedIn(lines, a) = p /\ lines[a].hidden = 0 }
            summaries(p) == { a \in DOMAIN lines : ListedIn(lines, a) = p /\ lines[a].hidden > 0 }
            total(p) == Len(relevantPositions(NodeListed(tree, lines, p).children, 1))
        IN
        /\ \A a \in DOMAIN lines : Len(lines[a].prefix) + 1 <= MAX_TREE_DEPTH
        /\ \A p \in 0 .. Len(lines) :
              (p = 0 \/ entries(p) # { }) =>
                 /\ Cardinality(entries(p)) <= MAX_CHILDREN_PER_DIR
                 /\ total(p) <= MAX_CHILDREN_PER_DIR => summaries(p) = { }
                 /\ total(p) > MAX_CHILDREN_PER_DIR =>
                       /\ Cardinality(summaries(p)) = 1
                       /\ \A a \in summaries(p) :
                             lines[a].hidden = total(p) - Cardinality(entries(p))

\* the components of a document all have a name and a layer
Complete(components) ==
    \A i \in DOMAIN components : components[i].name # Missing /\ components[i].layer # Missing

\* C32 as claimed: ArchitectureGeneratorService.convertJsonToMermaid writes
\* one group per entry of layers, in that order (one per distinct layer of
\* the components when there is no layers list), and every component as
\* exactly one node, in the group of its layer
C32_OneNodePerComponent ==
    (call.fn = "ArchitectureGenerator.convertJsonToMermaid" /\ Complete(call.args[1].components))
    => LET data == call.args[1]
           components == data.components
           groups == call.ret.groups
           layers == IF data.layers # None THEN The(data.layers)
                     ELSE Dedup([i \in DOMAIN components |-> components[i].layer])
           places(c) == { <<g, k>> \in (DOMAIN groups) \X (1 .. Len(components)) :
                            k \in DOMAIN groups[g].nodes /\ groups[g].nodes[k] = SanitizeId(c.id) }
       IN  /\ ~call.ret.threw
           /\ [g \in DOMAIN groups |-> groups[g].layer] = layers
           /\ Len(call.ret.nodes) = Len(components)
           /\ \A i \in DOMAIN components :
                 /\ Cardinality(places(components[i])) = 1
                 /\ \A place \in places(components[i]) :
                       Lower(groups[place[1]].layer) = Lower(components[i].layer)

\* C33 as claimed: a relationship of type imports or uses is drawn with the
\* dashed arrow, one of any other type with the plain solid arrow, and the
\* edge has a label, the description, exactly when there is a description
C33_ArrowStyles ==
    (call.fn = "ArchitectureGenerator.convertJsonToMermaid" /\ ~call.ret.threw)
    => LET relationships == The(call.args[1].relationships)
           links == call.ret.links
       IN  /\ Len(links) = Len(relationships)
           /\ \A r \in DOMAIN relationships :
                 /\ links[r].arrow = IF relationships[r].type \in {"imports", "uses"}
                                     THEN "-.->" ELSE "-->"
                 /\ links[r].label = IF relationships[r].description \in {Missing, ""}
                                     THEN None ELSE Some(relationships[r].description)

\* request j was made for the repository of request i while i was under way,
\* both found nothing cached, and i has returned a synthesized diagram that
\* is in the cache and has not expired
ServedBy(i, j) ==
    /\ i < j
    /\ Missed(i) /\ ops[i].cache = "miss"
    /\ Missed(j) /\ ops[j].cache = "miss" /\ ~ops[j].seq
    /\ ops[i].owner = ops[j].owner /\ ops[i].repo = ops[j].repo
    /\ ops[i].pc = "resolved" /\ ops[i].result \in AiDiagrams
    /\ CacheGet(storage, DiagramKey(ops[j].repo)).value = ops[i].result

\* C35 as claimed: of two concurrent diagram requests for one repository the
\* second issues no inference request once the first has cached its diagram
C35_OneRoundPerRepository ==
    [][\A i, j \in Ids : ServedBy(i, j) => ops'[j].nreq = ops[j].nreq]_vars

\* a call of generateExplanation or generateQuestionResponse is in flight
InFlight == \E i \in DOMAIN provider.calls : provider.calls[i].pc = "pending"

\* C36 as claimed: generating is true whenever a call of generateExplanation
\* or generateQuestionResponse is in flight
C36_GeneratingWhileInFlight == InFlight => provider.generating

\* C37 as claimed: generateExplanation never returns early on a degraded
\* explanation kept for the path: it asks again
C37_DegradedNotRetained ==
    \A i \in DOMAIN provider.calls :
        provider.calls[i].pc = "early" => provider.calls[i].result # "degraded"

====
